---- MODULE Spec2Model ----
(***************************************************************************)
(* Model of the customer-service audio audit pipeline:                     *)
(*   audit_processing.py  module initialisation, preprocess_audio,         *)
(*                        transcribe_audio, analyze_text,                  *)
(*                        perform_full_audio_audit                         *)
(*   audit/customer_service_audit_with_enhance.py  the script variant of   *)
(*                        analyze_text                                     *)
(*                                                                         *)
(* Text is a sequence of tokens (a token is a character or a fixed piece   *)
(* of text), so that slicing, stripping and concatenation are computed.    *)
(* A Python value is a record [t, s, l]: its type tag, its text when it    *)
(* is a str, its items when it is a list of str.  A dict is a function     *)
(* over Keys whose missing keys map to Absent.                             *)
(* The source writes the unknown sentiment and two summaries in Chinese;   *)
(* the module is ASCII, so those literals are spelled in English.          *)
(***************************************************************************)
EXTENDS Integers, Sequences, FiniteSets, TLC

\* ------------------------------------------------------------------ bounds
MaxSegs    == 2    \* segments the transcription capability yields
MaxMembers == 2    \* members of a JSON object in an LLM reply
MaxExtra   == 2    \* characters by which a long LLM reply exceeds the slice
MaxFiles   == 2    \* files in an uploaded archive

\* ------------------------------------------------------- program constants
RawPrefixLen     == 100   \* [:100] in analyze_text
VariantPrefixLen == 50    \* [:50] in the script variant

\* ------------------------------------------------------------ text helpers
Prefix(s, n) == SubSeq(s, 1, IF Len(s) < n THEN Len(s) ELSE n)

IsPrefixOf(p, s) == Len(p) <= Len(s) /\ SubSeq(s, 1, Len(p)) = p

Whitespace == {" ", "\n"}

RECURSIVE LStrip(_)
LStrip(s) == IF s # <<>> /\ Head(s) \in Whitespace THEN LStrip(Tail(s)) ELSE s

RECURSIVE RStrip(_)
RStrip(s) ==
    IF s # <<>> /\ s[Len(s)] \in Whitespace
    THEN RStrip(SubSeq(s, 1, Len(s) - 1)) ELSE s

\* a check for the empty string that forgets to strip
NoStrip(s) == s

\* str.strip()
Strip(s) == RStrip(LStrip(s))

RECURSIVE Join(_)
\* "".join(list of texts)
Join(ss) == IF ss = <<>> THEN <<>> ELSE Head(ss) \o Join(Tail(ss))

RECURSIVE SeqsUpTo(_, _)
SeqsUpTo(S, n) ==
    IF n = 0 THEN {<<>>}
    ELSE LET shorter == SeqsUpTo(S, n - 1)
         IN  shorter \cup {Append(q, x) : q \in shorter, x \in S}

\* ----------------------------------------------------------- Python values
Keys == {"audio_file", "transcription", "sentiment", "compliance_issues",
         "summary", "error", "status"}

Absent     == [t |-> "absent", s |-> <<>>, l |-> <<>>]
PyStr(txt) == [t |-> "str",    s |-> txt,  l |-> <<>>]
PyList(xs) == [t |-> "list",   s |-> <<>>, l |-> xs]

EmptyDict == [k \in Keys |-> Absent]

\* a dict literal / item assignment d[k] = v
DictSet(d, k, v) == [d EXCEPT ![k] = v]

Has(d, k) == d[k].t # "absent"

\* a value as analyze_text returns it: a dict, or JSON of another type
AsDict(d)   == [t |-> "dict", d |-> d]
NonDict(tp) == [t |-> tp,     d |-> EmptyDict]

SentimentUnknown == <<"unknown">>

\* ------------------------------------------------------------- json.loads
\* One token per member of a JSON object: the key and the value it carries.
MemberTokens == {"S", "C", "M", "Cs", "E", "F"}

MemberKey(tok) ==
    CASE tok = "S"  -> "sentiment"
      [] tok = "C"  -> "compliance_issues"
      [] tok = "Cs" -> "compliance_issues"
      [] tok = "M"  -> "summary"
      [] tok = "E"  -> "error"
      [] tok = "F"  -> "status"

MemberVal(tok) ==
    CASE tok = "S"  -> PyStr(<<"positive">>)
      [] tok = "C"  -> PyList(<<>>)
      [] tok = "Cs" -> PyStr(<<"none">>)
      [] tok = "M"  -> PyStr(<<"fine">>)
      [] tok = "E"  -> PyStr(<<"rude agent">>)
      [] tok = "F"  -> PyStr(<<"FAILED">>)

IsObjectText(txt) ==
    /\ Len(txt) >= 2
    /\ txt[1] = "{"
    /\ txt[Len(txt)] = "}"
    /\ \A i \in 2..(Len(txt) - 1) : txt[i] \in MemberTokens

RECURSIVE ObjectOf(_)
\* the dict of a member list; a later duplicate key overrides an earlier one
ObjectOf(ms) ==
    IF ms = <<>> THEN EmptyDict
    ELSE LET m == ms[Len(ms)]
         IN  DictSet(ObjectOf(SubSeq(ms, 1, Len(ms) - 1)),
                     MemberKey(m), MemberVal(m))

\* json.loads(txt): ok with the parsed value, or JSONDecodeError
JsonLoads(txt) ==
    IF IsObjectText(txt)
    THEN [ok |-> TRUE, val |-> AsDict(ObjectOf(SubSeq(txt, 2, Len(txt) - 1)))]
    ELSE IF txt = <<"[", "]">> THEN [ok |-> TRUE, val |-> NonDict("list")]
    ELSE IF txt = <<"1">>      THEN [ok |-> TRUE, val |-> NonDict("num")]
    ELSE [ok |-> FALSE, val |-> NonDict("none")]

\* --------------------------------------------- replies of ollama.generate
ObjectTexts ==
    {<<"{">> \o ms \o <<"}">> : ms \in SeqsUpTo(MemberTokens, MaxMembers)}

FullObjectText == <<"{", "S", "C", "M", "}">>

LongGarbage(n) == [i \in 1..n |-> "x"]

GarbageTexts ==
    {<<>>, <<"x">>, <<"{", "S">>, <<"<think>", "{", "S", "C", "M", "}">>}
    \cup {LongGarbage(RawPrefixLen + k) : k \in 0..MaxExtra}

ResponseTexts ==
    ObjectTexts \cup {FullObjectText, <<"[", "]">>, <<"1">>} \cup GarbageTexts

\* kind: "raise"   generate raised (connection refused, timeout, ...)
\*       "nofield" a reply without the response field
\*       "nonstr"  a reply whose response field is not a str
\*       "text"    a reply whose response field is the text
\* isdict: whether the reply object is a dict (older client library) or a
\*         mapping-like object of another class
LLMReplies ==
    {[kind |-> k, isdict |-> b, text |-> <<>>] :
        k \in {"raise", "nofield", "nonstr"}, b \in BOOLEAN}
    \cup {[kind |-> "text", isdict |-> b, text |-> txt] :
        b \in BOOLEAN, txt \in ResponseTexts}

\* str(response) of a reply object that is not a dict
StrOfReply(reply) == <<"response=">> \o reply.text

\* what line 181 slices: response.get('response', '') or str(response)
RawOfReply(reply) == IF reply.isdict THEN reply.text ELSE StrOfReply(reply)

\* ------------------------------------------ audit_processing.analyze_text
\* lines 173-177: the reply has no str response field
FormatFallback(text) ==
    AsDict(DictSet(DictSet(DictSet(EmptyDict,
        "sentiment", PyStr(SentimentUnknown)),
        "compliance_issues", PyList(<< <<"LLM response format error">> >>)),
        "summary", PyStr(<<"Ollama returned an unexpected response structure: ">>
                         \o Prefix(text, RawPrefixLen) \o <<"...">>)))

\* the raw reply embedded without the slice
RawRespUnsliced(reply) == RawOfReply(reply)

\* line 181: raw_resp
RawResp(reply) == Prefix(RawOfReply(reply), RawPrefixLen)

\* a parse fallback that reports no compliance issue, as the script variant
ParseFallbackNoIssue(reply) ==
    AsDict(DictSet(DictSet(DictSet(EmptyDict,
        "sentiment", PyStr(SentimentUnknown)),
        "compliance_issues", PyList(<<>>)),
        "summary", PyStr(<<"Cannot parse LLM output. Raw: ">>
                         \o RawResp(reply) \o <<"...">>)))

\* lines 180-185: except json.JSONDecodeError
ParseFallback(reply) ==
    AsDict(DictSet(DictSet(DictSet(EmptyDict,
        "sentiment", PyStr(SentimentUnknown)),
        "compliance_issues",
            PyList(<< <<"JSON parsing error: ", "Expecting value">> >>)),
        "summary", PyStr(<<"Cannot parse LLM output. Raw: ">>
                         \o RawResp(reply) \o <<"...">>)))

\* lines 186-190: except Exception
RequestFallback ==
    AsDict(DictSet(DictSet(DictSet(EmptyDict,
        "sentiment", PyStr(SentimentUnknown)),
        "compliance_issues",
            PyList(<< <<"Ollama request failed: ", "connection refused">> >>)),
        "summary", PyStr(<<"LLM analysis request failed.">>)))

\* lines 171-190.  exc is the exception that leaves the function ("none"
\* when it returns val).  The module imports ollama unconditionally (line
\* 4), so the check of line 152 never raises in a loaded module.
AnalyzeText(text, reply) ==
    IF reply.kind = "raise"
    THEN [exc |-> "none", val |-> RequestFallback]
    ELSE IF reply.kind \in {"nofield", "nonstr"}
    THEN [exc |-> "none", val |-> FormatFallback(text)]
    ELSE LET parsed == JsonLoads(reply.text)
         IN  IF parsed.ok
             THEN [exc |-> "none", val |-> parsed.val]
             ELSE [exc |-> "none", val |-> ParseFallback(reply)]

\* ------------------- customer_service_audit_with_enhance.py analyze_text
\* lines 88-93: except json.JSONDecodeError
VariantParseFallback(text) ==
    AsDict(DictSet(DictSet(DictSet(EmptyDict,
        "sentiment", PyStr(SentimentUnknown)),
        "compliance_issues", PyList(<<>>)),
        "summary", PyStr(<<"Cannot parse LLM output, text may be incomplete: ">>
                         \o Prefix(text, VariantPrefixLen) \o <<"...">>)))

\* lines 85-94: generate is called outside the try, and the try catches
\* json.JSONDecodeError only
VariantAnalyzeText(text, reply) ==
    IF reply.kind = "raise"
    THEN [exc |-> "ConnectionError", val |-> NonDict("none")]
    ELSE IF reply.kind = "nofield"
    THEN [exc |-> "KeyError", val |-> NonDict("none")]
    ELSE IF reply.kind = "nonstr"
    THEN [exc |-> "TypeError", val |-> NonDict("none")]
    ELSE LET parsed == JsonLoads(reply.text)
         IN  IF parsed.ok
             THEN [exc |-> "none", val |-> parsed.val]
             ELSE [exc |-> "none", val |-> VariantParseFallback(text)]

\* ------------------------------------------------------------ file system
\* A path is a directory and a name in it; the directory itself has the
\* empty name.  A name is the sequence of the pieces it is formatted from.
NoPath == [dir |-> "", name |-> <<>>]

DirPath(d) == [dir |-> d, name |-> <<>>]

\* os.path.join(d, name)
FilePath(d, n) == [dir |-> d, name |-> n]

\* the paths at or under directory d
Under(paths, d) == {p \in paths : p.dir = d}

UploadsDir == "uploads"

\* the callers' audio files: base name and extension (os.path.splitext)
Exts == {".wav", ".WAV", ".mp3"}

\* "call" files exist when the program starts, "gone" files do not
Inputs == {[base |-> b, ext |-> e] : b \in {"call", "gone"}, e \in Exts}

InputPath(inp) == FilePath(UploadsDir, <<inp.base, inp.ext>>)

\* os.path.basename(audio_file_path)
Basename(inp) == <<inp.base, inp.ext>>

\* str.lower() on an extension
Lower(e) ==
    IF e = ".WAV" THEN ".wav" ELSE IF e = ".MP3" THEN ".mp3" ELSE e

\* names mkdtemp can draw, and the 8 hex digits of uuid4
TmpNames == {"audio_audit_1", "audio_audit_2"}

Uuids == {"0a1b2c3d", "4e5f6a7b"}

\* ------------------------------------------------------------ capabilities
Capabilities == {"ffmpeg", "load", "denoise", "enhance", "save",
                 "transcribe", "analyze"}

\* exceptions an ML capability can raise (a broken tensor, a bad value, a
\* model file that is not there)
CapErrors == {"RuntimeError", "ValueError", "FileNotFoundError"}

\* an exception: its class, str(e), and the stderr a CalledProcessError holds
NoExc == [type |-> "none", msg |-> <<>>, stderr |-> <<>>]

Exc(tp, m) == [type |-> tp, msg |-> m, stderr |-> <<>>]

\* bytes that are not UTF-8 (a file name or a tag in a legacy encoding,
\* which ffmpeg echoes as it finds it)
InvalidUtf8 == "<0xCE 0xC4>"

\* what ffmpeg can leave in stderr when it exits non-zero: nothing, a
\* message in UTF-8, a message with bytes that are not UTF-8
Stderrs ==
    {<<>>,
     <<"call.mp3: Invalid data found when processing input">>,
     <<InvalidUtf8, ": Invalid data found when processing input">>}

CalledProcessError(err) ==
    [type |-> "CalledProcessError",
     msg |-> <<"Command ffmpeg returned non-zero exit status 1.">>,
     stderr |-> err]

\* segment texts the transcription capability can yield
SegTexts == {<<>>, <<" ">>, <<"hello">>, <<" ", "bye", "\n">>}

SegmentLists == SeqsUpTo(SegTexts, MaxSegs)

\* texts analyze_text is called with directly
DirectTexts == {<<>>, <<"hello">>, [i \in 1..(RawPrefixLen + 1) |-> "y"]}

\* --------------------------------------------------- module initialisation
\* the globals if the except clause did not reset them (lines 57-62 left
\* out): torch and torchaudio, imported before the import that failed, stay
ModuleInitNoReset(imported, modelOk) ==
    IF imported
    THEN [flag |-> TRUE, torch |-> TRUE, torchaudio |-> TRUE,
          WhisperModel |-> TRUE, denoise_func |-> TRUE, enhance_func |-> TRUE,
          WHISPER_MODEL_INSTANCE |-> modelOk]
    ELSE [flag |-> FALSE, torch |-> TRUE, torchaudio |-> TRUE,
          WhisperModel |-> FALSE, denoise_func |-> FALSE,
          enhance_func |-> FALSE, WHISPER_MODEL_INSTANCE |-> FALSE]

\* lines 9-62: the globals after the module is loaded; TRUE stands for a
\* handle that is not None.  imported: the four imports of lines 22-25
\* succeed; modelOk: WhisperModel("medium", ...) of line 41 succeeds.
ModuleInit(imported, modelOk) ==
    IF imported
    THEN [flag |-> TRUE, torch |-> TRUE, torchaudio |-> TRUE,
          WhisperModel |-> TRUE, denoise_func |-> TRUE, enhance_func |-> TRUE,
          WHISPER_MODEL_INSTANCE |-> modelOk]
    ELSE [flag |-> FALSE, torch |-> FALSE, torchaudio |-> FALSE,
          WhisperModel |-> FALSE, denoise_func |-> FALSE,
          enhance_func |-> FALSE, WHISPER_MODEL_INSTANCE |-> FALSE]

VARIABLES
    caps,          \* the module globals of the capability guard
    fs,            \* the paths that exist
    op,            \* the top-level call in progress or just finished
    pc,            \* its position
    input,         \* audio_file_path of the audit
    text,          \* the text analyze_text was called with
    reply,         \* what ollama.generate did when analyze_text was called
    temp_dir,      \* the audit's temporary directory ("" before it exists)
    output_enhanced_path,  \* preprocess_audio's local
    temp_wav_file,         \* preprocess_audio's local (NoPath for None)
    enhanced_file_path,    \* transcribe_audio's local (NoPath for None)
    silent,        \* whether the enhanced waveform is below the threshold
    segments,      \* the lazily produced segment sequence
    transcription, \* transcribe_audio's local (line 135)
    audit_transcription,  \* the audit's local (line 203), Absent until bound
    analysis,      \* what analyze_text returned to the audit
    exc,           \* the exception propagating, NoExc when none
    ret,           \* the value of the return statement being executed
    outcome,       \* what the caller got: nothing yet, a value, an exception
    calls,         \* capability -> calls during this call
    fsops,         \* kinds of file-system change made during this call
    created,       \* paths created during this call
    handler,       \* worker -> the request handler it runs in main.py
    temp_uploads   \* what exists under TEMP_UPLOADS_DIR, and who wrote it

\* the variables of audit_processing.py
audit_vars ==
    <<caps, fs, op, pc, input, text, reply, temp_dir, output_enhanced_path,
      temp_wav_file, enhanced_file_path, silent, segments, transcription,
      audit_transcription, analysis, exc, ret, outcome, calls, fsops,
      created>>

\* the variables of main.py
http_vars == <<handler, temp_uploads>>

vars == <<audit_vars, http_vars>>

NoValue == NonDict("none")

\* the segment sequence is a generator: the items it yields as it is
\* iterated, the position of the next one, and how many iterations (a for
\* loop, a comprehension) were started on it
NoSegments == [items |-> <<>>, next |-> 1, passes |-> 0]

LazySegments(items) == [items |-> items, next |-> 1, passes |-> 0]

\* what an iteration started now yields
Remaining(g) == SubSeq(g.items, g.next, Len(g.items))

\* the generator after an iteration ran over it
Iterated(g) ==
    [g EXCEPT !.next = Len(g.items) + 1, !.passes = g.passes + 1]

NoReply == [kind |-> "none", isdict |-> TRUE, text |-> <<>>]

NoOutcome == [kind |-> "none", val |-> NoValue, exc |-> "none"]

Returned(v) == [kind |-> "returned", val |-> v, exc |-> "none"]

Raised(tp) == [kind |-> "raised", val |-> NoValue, exc |-> tp]

FreshLocals ==
    /\ temp_dir = ""
    /\ output_enhanced_path = NoPath
    /\ temp_wav_file = NoPath
    /\ enhanced_file_path = NoPath
    /\ silent = FALSE
    /\ segments = NoSegments
    /\ transcription = <<>>
    /\ audit_transcription = Absent
    /\ analysis = NoValue
    /\ exc = NoExc
    /\ ret = NoValue

\* a new call starts with fresh locals
ResetLocals ==
    /\ temp_dir' = ""
    /\ output_enhanced_path' = NoPath
    /\ temp_wav_file' = NoPath
    /\ enhanced_file_path' = NoPath
    /\ silent' = FALSE
    /\ segments' = NoSegments
    /\ transcription' = <<>>
    /\ audit_transcription' = Absent
    /\ analysis' = NoValue
    /\ exc' = NoExc
    /\ ret' = NoValue

\* ----------------------------------------------------- main.py: the values
\* the workers that serve requests (uvicorn processes sharing the directory)
Workers == {"w1", "w2"}

\* an HTTP response: the status code; the AudioAuditResponse of
\* /upload/audio/; message, processed_files and errors of the
\* ZipUploadResponse; the detail of an HTTPException.  Code 0: none yet.
NoResponse ==
    [code |-> 0, body |-> EmptyDict, message |-> <<>>,
     processed_files |-> <<>>, errors |-> <<>>, detail |-> <<>>]

NoStream == [kind |-> "none", members |-> <<>>]

\* a worker's handler: the request (endpoint, file.filename, the uploaded
\* bytes), the handler's locals under their names, the response it has
\* chosen to give after its finally clause (pending), the response given,
\* and, as a record of what happened, the outcomes of the audits it called,
\* whether writing the upload or making the directory failed, and the
\* paths whose removal failed
IdleHandler ==
    [pc |-> "idle", endpoint |-> "none", filename |-> <<>>,
     stream |-> NoStream, temp_file_path |-> NoPath,
     temp_zip_path |-> NoPath, extraction_path |-> NoPath,
     results |-> <<>>, general_errors |-> <<>>, walked |-> 0,
     pending |-> NoResponse, response |-> NoResponse,
     audits |-> <<>>, oserror |-> FALSE, rmfailed |-> {}]

InitHttp ==
    /\ handler = [w \in Workers |-> IdleHandler]
    /\ temp_uploads = {}

InitAudit ==
    /\ \E imported \in BOOLEAN, modelOk \in BOOLEAN :
           caps = ModuleInit(imported, modelOk)
    /\ fs = {InputPath(i) : i \in {j \in Inputs : j.base = "call"}}
    /\ op = "none"
    /\ pc = "idle"
    /\ input = [base |-> "call", ext |-> ".wav"]
    /\ text = <<>>
    /\ reply = NoReply
    /\ FreshLocals
    /\ outcome = NoOutcome
    /\ calls = [c \in Capabilities |-> 0]
    /\ fsops = {}
    /\ created = {}

Init == InitAudit /\ InitHttp

\* ------------------------------------------------------------ the records
\* lines 205-209
EmptyTranscriptRecord(inp) ==
    AsDict(DictSet(DictSet(DictSet(DictSet(DictSet(EmptyDict,
        "audio_file", PyStr(Basename(inp))),
        "transcription", PyStr(<<>>)),
        "sentiment", PyStr(SentimentUnknown)),
        "compliance_issues", PyList(<< <<"Empty transcription">> >>)),
        "summary", PyStr(<<"The transcription is empty, no analysis possible.">>)))

\* lines 211-213 on a dict
MergedRecord(inp, an, tr) ==
    AsDict(DictSet(DictSet(an.d,
        "audio_file", PyStr(Basename(inp))),
        "transcription", PyStr(tr)))

FailedRecord(inp, err) ==
    AsDict(DictSet(DictSet(DictSet(EmptyDict,
        "audio_file", PyStr(Basename(inp))),
        "error", PyStr(err)),
        "status", PyStr(<<"FAILED">>)))

NotFoundError == <<"Input audio file not found.">>

\* bytes that bytes.decode() (UTF-8, strict) turns into text
Decodable(b) == \A i \in 1..Len(b) : b[i] # InvalidUtf8

\* line 219, when the decoding succeeds
ErrMsg(e) == IF e.stderr # <<>> THEN e.stderr ELSE e.msg

\* line 219 raises UnicodeDecodeError inside the except clause
ErrMsgRaises(e) ==
    e.type = "CalledProcessError" /\ e.stderr # <<>> /\ ~Decodable(e.stderr)

UnicodeDecodeError ==
    Exc("UnicodeDecodeError",
        <<"'utf-8' codec can't decode byte 0xce: invalid continuation byte">>)

\* lines 214-224: the except clauses, in their order.  JSON decoding and
\* other value errors are ValueError; a missing executable or model file is
\* FileNotFoundError like a missing input.
HandlerRecord(inp, e) ==
    IF e.type = "FileNotFoundError"
    THEN FailedRecord(inp, NotFoundError)
    ELSE IF e.type = "ValueError"
    THEN FailedRecord(inp, <<"Processing error: ">> \o e.msg)
    ELSE IF e.type = "CalledProcessError"
    THEN FailedRecord(inp, <<"Audio conversion failed: ">> \o ErrMsg(e))
    ELSE IF e.type = "ImportError"
    THEN FailedRecord(inp, <<"Import error during processing: ">> \o e.msg)
    ELSE FailedRecord(inp, <<"An unexpected error occurred: ">> \o e.msg)

\* --------------------------------------------------------------- the calls
Count(c) == calls' = [calls EXCEPT ![c] = @ + 1]

\* a top-level call starts when no other is in progress
StartCall(name) ==
    /\ pc = "idle"
    /\ op' = name
    /\ UNCHANGED <<http_vars, caps, fs, temp_dir, output_enhanced_path, temp_wav_file,
                   enhanced_file_path, silent, segments, transcription,
                   audit_transcription,
                   analysis, exc, ret, calls, fsops, created>>

\* the directory the script variant runs in; its file names are relative
ScriptDir == "cwd"

\* the caller has taken the result; the next call starts afresh.  A run is
\* not followed past a call that left its temporary directory, or the
\* script's working files, behind.
Finish ==
    /\ pc = "done"
    /\ \A d \in TmpNames : DirPath(d) \notin fs
    /\ Under(fs, ScriptDir) = {}
    /\ pc' = "idle"
    /\ op' = "none"
    /\ input' = [base |-> "call", ext |-> ".wav"]
    /\ text' = <<>>
    /\ reply' = NoReply
    /\ ResetLocals
    /\ outcome' = NoOutcome
    /\ calls' = [c \in Capabilities |-> 0]
    /\ fsops' = {}
    /\ created' = {}
    /\ UNCHANGED <<http_vars, caps, fs>>

\* analyze_text(text) called on its own
CallAnalyzeText ==
    /\ StartCall("analyze_text")
    /\ \E t \in DirectTexts, r \in LLMReplies :
         LET res == AnalyzeText(t, r)
         IN  /\ text' = t
             /\ reply' = r
             /\ outcome' = IF res.exc = "none" THEN Returned(res.val)
                           ELSE Raised(res.exc)
    /\ pc' = "done"
    /\ UNCHANGED input

\* the script variant's analyze_text(text)
CallVariantAnalyzeText ==
    /\ StartCall("variant_analyze_text")
    /\ \E t \in DirectTexts, r \in LLMReplies :
         LET res == VariantAnalyzeText(t, r)
         IN  /\ text' = t
             /\ reply' = r
             /\ outcome' = IF res.exc = "none" THEN Returned(res.val)
                           ELSE Raised(res.exc)
    /\ pc' = "done"
    /\ UNCHANGED input

\* perform_full_audio_audit(audio_file_path) is called
CallAudit ==
    /\ StartCall("audit")
    /\ \E inp \in Inputs : input' = inp
    /\ pc' = "L196"
    /\ UNCHANGED <<text, reply, outcome>>

\* ------------------------------------------------ perform_full_audio_audit
InAudit(label) == op = "audit" /\ pc = label

\* a step that raises: the exception starts to propagate to label
Raise(e, label) == exc' = e /\ pc' = label

\* line 196, entering the with: mkdtemp makes a directory that did not
\* exist, or fails (no space, no permission) and the error leaves the call
EnterTempDir ==
    /\ InAudit("L196")
    /\ \/ \E d \in TmpNames :
            /\ DirPath(d) \notin fs
            /\ temp_dir' = d
            /\ fs' = fs \cup {DirPath(d)}
            /\ created' = created \cup {DirPath(d)}
            /\ fsops' = fsops \cup {"mkdtemp"}
            /\ pc' = "L200"
            /\ UNCHANGED outcome
       \/ /\ outcome' = Raised("OSError")
          /\ pc' = "done"
          /\ UNCHANGED <<temp_dir, fs, created, fsops>>
    /\ UNCHANGED <<http_vars, caps, op, input, text, reply, output_enhanced_path,
                   temp_wav_file, enhanced_file_path, silent, segments,
                   transcription,
                   audit_transcription, analysis, exc, ret, calls>>

\* line 200: the capability-availability guard
GuardUnavailable == ~caps.flag \/ ~caps.WHISPER_MODEL_INSTANCE

\* lines 200-201
CheckGuard ==
    /\ InAudit("L200")
    /\ IF GuardUnavailable
       THEN Raise(Exc("ImportError",
                <<"Core audio processing components are not available for a full audit.">>),
                "L214")
       ELSE pc' = "L122" /\ UNCHANGED exc
    /\ UNCHANGED <<http_vars, caps, fs, op, input, text, reply, temp_dir,
                   output_enhanced_path, temp_wav_file, enhanced_file_path,
                   silent, segments, transcription,
                   audit_transcription, analysis, ret, outcome,
                   calls, fsops, created>>

\* lines 122-126: transcribe_audio's guards, before its try
TranscribeGuards ==
    /\ InAudit("L122")
    /\ IF ~caps.flag \/ ~caps.WhisperModel
       THEN Raise(Exc("ImportError",
                <<"faster_whisper.WhisperModel class not imported. Cannot transcribe.">>),
                "L214")
       ELSE IF ~caps.WHISPER_MODEL_INSTANCE
       THEN Raise(Exc("ImportError",
                <<"WHISPER_MODEL_INSTANCE is not initialized. Cannot transcribe.">>),
                "L214")
       ELSE pc' = "L71" /\ UNCHANGED exc
    /\ UNCHANGED <<http_vars, caps, fs, op, input, text, reply, temp_dir,
                   output_enhanced_path, temp_wav_file, enhanced_file_path,
                   silent, segments, transcription,
                   audit_transcription, analysis, ret, outcome,
                   calls, fsops, created>>

\* lines 71-75: preprocess_audio's guard and the check of the input file
PreprocessGuards ==
    /\ InAudit("L71")
    /\ IF ~caps.flag \/ ~caps.torch \/ ~caps.torchaudio
          \/ ~caps.denoise_func \/ ~caps.enhance_func
       THEN Raise(Exc("ImportError",
                <<"Core audio processing libraries (torch, torchaudio, resemble_enhance) are not available for preprocess_audio.">>),
                "L140")
       ELSE IF InputPath(input) \notin fs
       THEN Raise(Exc("FileNotFoundError",
                <<"Input file ", input.base, input.ext, " does not exist.">>),
                "L140")
       ELSE pc' = "L77" /\ UNCHANGED exc
    /\ UNCHANGED <<http_vars, caps, fs, op, input, text, reply, temp_dir,
                   output_enhanced_path, temp_wav_file, enhanced_file_path,
                   silent, segments, transcription,
                   audit_transcription, analysis, ret, outcome,
                   calls, fsops, created>>

\* lines 77-81: makedirs(exist_ok=True) and the name of the enhanced file
PrepareNames ==
    /\ InAudit("L77")
    /\ IF DirPath(temp_dir) \in fs
       THEN UNCHANGED <<fs, fsops, created>>
       ELSE /\ fs' = fs \cup {DirPath(temp_dir)}
            /\ fsops' = fsops \cup {"makedirs"}
            /\ created' = created \cup {DirPath(temp_dir)}
    /\ \E u \in Uuids :
         output_enhanced_path' =
             FilePath(temp_dir, <<input.base, "_enhanced_", u, ".wav">>)
    /\ temp_wav_file' = NoPath
    /\ pc' = "L84"
    /\ UNCHANGED <<http_vars, caps, op, input, text, reply, temp_dir, enhanced_file_path,
                   silent, segments, transcription,
                   audit_transcription, analysis, exc, ret,
                   outcome, calls>>

\* a capability call that is tried again, at the same line, when it fails
CapabilityStepRetry(cap, ok) ==
    /\ Count(cap)
    /\ \/ pc' = ok /\ UNCHANGED exc
       \/ UNCHANGED <<pc, exc>>

\* a capability call that either succeeds, going on to label ok, or raises
\* one of CapErrors inside preprocess_audio's try
CapabilityStep(cap, ok) ==
    /\ Count(cap)
    /\ \/ pc' = ok /\ UNCHANGED exc
       \/ \E tp \in CapErrors : Raise(Exc(tp, <<cap, " failed">>), "L110")

\* lines 84-92: the transcoder runs when the extension is not .wav
ConvertIfNeeded ==
    /\ InAudit("L84")
    /\ IF Lower(input.ext) # ".wav"
       THEN \E u \in Uuids :
              LET temp_wav_path ==
                      FilePath(temp_dir,
                               <<input.base, "_temp_conversion_", u, ".wav">>)
              IN  /\ temp_wav_file' = temp_wav_path
                  /\ Count("ffmpeg")
                  /\ \/ \* exit status 0: the converted file is there
                        /\ fs' = fs \cup {temp_wav_path}
                        /\ created' = created \cup {temp_wav_path}
                        /\ fsops' = fsops \cup {"ffmpeg"}
                        /\ pc' = "L94"
                        /\ UNCHANGED exc
                     \/ \* non-zero exit, with or without a partial file
                        \E err \in Stderrs, wrote \in BOOLEAN :
                          /\ fs' = IF wrote THEN fs \cup {temp_wav_path} ELSE fs
                          /\ created' = IF wrote
                                        THEN created \cup {temp_wav_path}
                                        ELSE created
                          /\ fsops' = IF wrote THEN fsops \cup {"ffmpeg"}
                                      ELSE fsops
                          /\ Raise(CalledProcessError(err), "L110")
                     \/ \* the ffmpeg executable is not installed
                        /\ Raise(Exc("FileNotFoundError",
                               <<"[Errno 2] No such file or directory: 'ffmpeg'">>),
                               "L110")
                        /\ UNCHANGED <<fs, created, fsops>>
       ELSE /\ pc' = "L94"
            /\ UNCHANGED <<temp_wav_file, calls, fs, created, fsops, exc>>
    /\ UNCHANGED <<http_vars, caps, op, input, text, reply, temp_dir,
                   output_enhanced_path, enhanced_file_path, silent, segments,
                   transcription,
                   audit_transcription, analysis, ret, outcome>>

\* lines 94-95: torchaudio.load
LoadAudio ==
    /\ InAudit("L94")
    /\ CapabilityStep("load", "L97")
    /\ UNCHANGED <<http_vars, caps, fs, op, input, text, reply, temp_dir,
                   output_enhanced_path, temp_wav_file, enhanced_file_path,
                   silent, segments, transcription,
                   audit_transcription, analysis, ret, outcome,
                   fsops, created>>

\* line 97: denoise_func
Denoise ==
    /\ InAudit("L97")
    /\ CapabilityStep("denoise", "L98")
    /\ UNCHANGED <<http_vars, caps, fs, op, input, text, reply, temp_dir,
                   output_enhanced_path, temp_wav_file, enhanced_file_path,
                   silent, segments, transcription,
                   audit_transcription, analysis, ret, outcome,
                   fsops, created>>

\* lines 98-100: enhance_func; the waveform it returns is silent or not
Enhance ==
    /\ InAudit("L98")
    /\ Count("enhance")
    /\ \/ \E b \in BOOLEAN :
            /\ silent' = b
            /\ pc' = "L102"
            /\ UNCHANGED exc
       \/ \E tp \in CapErrors :
            /\ Raise(Exc(tp, <<"enhance", " failed">>), "L110")
            /\ UNCHANGED silent
    /\ UNCHANGED <<http_vars, caps, fs, op, input, text, reply, temp_dir,
                   output_enhanced_path, temp_wav_file, enhanced_file_path,
                   segments, transcription,
                   audit_transcription, analysis, ret, outcome, fsops,
                   created>>

\* the error of line 103
SilenceError ==
    Exc("ValueError",
        <<"Enhanced audio is almost silent, processing likely failed.">>)

\* the function without the check of lines 102-103
CheckSilenceSkipped ==
    /\ InAudit("L102")
    /\ pc' = "L105"
    /\ UNCHANGED <<http_vars, caps, fs, op, input, text, reply, temp_dir,
                   output_enhanced_path, temp_wav_file, enhanced_file_path,
                   silent, segments, transcription,
                   audit_transcription, analysis, exc, ret, outcome,
                   calls, fsops, created>>

\* lines 102-103: peak amplitude below 1e-5
CheckSilence ==
    /\ InAudit("L102")
    /\ IF silent
       THEN Raise(SilenceError, "L110")
       ELSE pc' = "L105" /\ UNCHANGED exc
    /\ UNCHANGED <<http_vars, caps, fs, op, input, text, reply, temp_dir,
                   output_enhanced_path, temp_wav_file, enhanced_file_path,
                   silent, segments, transcription,
                   audit_transcription, analysis, ret, outcome,
                   calls, fsops, created>>

\* lines 105-106: torchaudio.save writes the enhanced file and the function
\* returns its path, or fails having written part of it or nothing
SaveEnhanced ==
    /\ InAudit("L105")
    /\ Count("save")
    /\ \/ /\ fs' = fs \cup {output_enhanced_path}
          /\ created' = created \cup {output_enhanced_path}
          /\ fsops' = fsops \cup {"save"}
          /\ pc' = "L110"
          /\ UNCHANGED exc
       \/ \E tp \in CapErrors, wrote \in BOOLEAN :
            /\ fs' = IF wrote THEN fs \cup {output_enhanced_path} ELSE fs
            /\ created' = IF wrote THEN created \cup {output_enhanced_path}
                          ELSE created
            /\ fsops' = IF wrote THEN fsops \cup {"save"} ELSE fsops
            /\ Raise(Exc(tp, <<"save", " failed">>), "L110")
    /\ UNCHANGED <<http_vars, caps, op, input, text, reply, temp_dir,
                   output_enhanced_path, temp_wav_file, enhanced_file_path,
                   silent, segments, transcription,
                   audit_transcription, analysis, ret, outcome>>

\* os.remove(p) guarded by "p and os.path.exists(p)", its OSError swallowed:
\* the file goes, or (the guard false, or remove failing) everything stays
RemoveIfExists(p) ==
    \/ /\ p # NoPath
       /\ p \in fs
       /\ fs' = fs \ {p}
       /\ fsops' = fsops \cup {"remove"}
    \/ UNCHANGED <<fs, fsops>>

\* lines 107-115: the CalledProcessError clause re-raises; the finally
\* removes the converted file; then the function returns or the exception
\* goes on to transcribe_audio
PreprocessFinally ==
    /\ InAudit("L110")
    /\ RemoveIfExists(temp_wav_file)
    /\ IF exc = NoExc
       THEN enhanced_file_path' = output_enhanced_path /\ pc' = "L131"
       ELSE pc' = "L140" /\ UNCHANGED enhanced_file_path
    /\ UNCHANGED <<http_vars, caps, op, input, text, reply, temp_dir,
                   output_enhanced_path, temp_wav_file, silent, segments,
                   transcription,
                   audit_transcription, analysis, exc, ret, outcome, calls,
                   created>>

\* lines 131-134: WHISPER_MODEL_INSTANCE.transcribe returns the lazy
\* segment sequence, or raises
WhisperTranscribe ==
    /\ InAudit("L131")
    /\ Count("transcribe")
    /\ \/ \E segs \in SegmentLists :
            /\ segments' = LazySegments(segs)
            /\ pc' = "L135"
            /\ UNCHANGED exc
       \/ \E tp \in CapErrors :
            /\ Raise(Exc(tp, <<"transcribe", " failed">>), "L140")
            /\ UNCHANGED segments
    /\ UNCHANGED <<http_vars, caps, fs, op, input, text, reply, temp_dir,
                   output_enhanced_path, temp_wav_file, enhanced_file_path,
                   silent, transcription,
                   audit_transcription, analysis, ret, outcome, fsops,
                   created>>

\* lines 135-136: the join consumes the sequence; decoding is done while
\* it is consumed, so it can still fail here
JoinSegments ==
    /\ InAudit("L135")
    /\ segments' = Iterated(segments)
    /\ \/ /\ transcription' = Join(Remaining(segments))
          /\ pc' = "L140"
          /\ UNCHANGED exc
       \/ /\ Raise(Exc("RuntimeError", <<"transcribe", " failed">>), "L140")
          /\ UNCHANGED transcription
    /\ UNCHANGED <<http_vars, caps, fs, op, input, text, reply, temp_dir,
                   output_enhanced_path, temp_wav_file, enhanced_file_path,
                   silent, audit_transcription, analysis, ret, outcome,
                   calls, fsops, created>>

\* lines 137-145: the except clause re-raises; the finally removes the
\* enhanced file; then the transcript or the exception reaches the audit
TranscribeFinally ==
    /\ InAudit("L140")
    /\ RemoveIfExists(enhanced_file_path)
    /\ IF exc = NoExc
       THEN audit_transcription' = PyStr(transcription) /\ pc' = "L204"
       ELSE pc' = "L214" /\ UNCHANGED audit_transcription
    /\ UNCHANGED <<http_vars, caps, op, input, text, reply, temp_dir,
                   output_enhanced_path, temp_wav_file, enhanced_file_path,
                   silent, segments, transcription, analysis, exc, ret,
                   outcome, calls, created>>

\* lines 204-209: the empty-transcript short cut
CheckEmpty ==
    /\ InAudit("L204")
    /\ IF Strip(audit_transcription.s) = <<>>
       THEN ret' = EmptyTranscriptRecord(input) /\ pc' = "exit"
       ELSE pc' = "L210" /\ UNCHANGED ret
    /\ UNCHANGED <<http_vars, caps, fs, op, input, text, reply, temp_dir,
                   output_enhanced_path, temp_wav_file, enhanced_file_path,
                   silent, segments, transcription,
                   audit_transcription, analysis, exc, outcome,
                   calls, fsops, created>>

\* line 210: analysis = analyze_text(transcription)
Analyze ==
    /\ InAudit("L210")
    /\ Count("analyze")
    /\ \E r \in LLMReplies :
         LET res == AnalyzeText(audit_transcription.s, r)
         IN  IF res.exc = "none"
             THEN analysis' = res.val /\ pc' = "L211" /\ UNCHANGED exc
             ELSE Raise(Exc(res.exc, <<"analyze", " failed">>), "L214")
                  /\ UNCHANGED analysis
    /\ UNCHANGED <<http_vars, caps, fs, op, input, text, reply, temp_dir, output_enhanced_path,
                   temp_wav_file, enhanced_file_path, silent, segments,
                   transcription,
                   audit_transcription, ret, outcome, fsops, created>>

\* lines 211-213: item assignment works on a dict and is a TypeError on
\* any other JSON value
MergeAnalysis ==
    /\ InAudit("L211")
    /\ IF analysis.t = "dict"
       THEN /\ ret' = MergedRecord(input, analysis, audit_transcription.s)
            /\ pc' = "exit"
            /\ UNCHANGED exc
       ELSE /\ Raise(Exc("TypeError",
                  <<"object does not support item assignment">>), "L214")
            /\ UNCHANGED ret
    /\ UNCHANGED <<http_vars, caps, fs, op, input, text, reply, temp_dir,
                   output_enhanced_path, temp_wav_file, enhanced_file_path,
                   silent, segments, transcription,
                   audit_transcription, analysis, outcome, calls,
                   fsops, created>>

\* lines 214-224: the except clause that matches returns its record; an
\* exception raised inside the clause (the decode of line 219) is caught by
\* no other clause of the try and leaves the with block
Except ==
    /\ InAudit("L214")
    /\ IF ErrMsgRaises(exc)
       THEN exc' = UnicodeDecodeError /\ UNCHANGED ret
       ELSE ret' = HandlerRecord(input, exc) /\ exc' = NoExc
    /\ pc' = "exit"
    /\ UNCHANGED <<http_vars, caps, fs, op, input, text, reply, temp_dir,
                   output_enhanced_path, temp_wav_file, enhanced_file_path,
                   silent, segments, transcription,
                   audit_transcription, analysis, outcome, calls,
                   fsops, created>>

\* a cleanup that removes the directory entry only, like os.rmdir
CleanupDirOnly(paths, d) == paths \ {DirPath(d)}

\* what TemporaryDirectory.cleanup removes
Cleanup(paths, d) == paths \ Under(paths, d)

\* line 196, leaving the with by a return or by an exception: the
\* directory and all it holds are removed and the caller gets the value or
\* the exception; or the removal fails and its error replaces either
ExitTempDir ==
    /\ InAudit("exit")
    /\ \/ /\ fs' = Cleanup(fs, temp_dir)
          /\ fsops' = fsops \cup {"rmtree"}
          /\ outcome' = IF exc = NoExc THEN Returned(ret)
                        ELSE Raised(exc.type)
       \/ /\ outcome' = Raised("OSError")
          /\ UNCHANGED <<fs, fsops>>
    /\ pc' = "done"
    /\ UNCHANGED <<http_vars, caps, op, input, text, reply, temp_dir,
                   output_enhanced_path, temp_wav_file, enhanced_file_path,
                   silent, segments, transcription,
                   audit_transcription, analysis, exc, ret, calls,
                   created>>

\* ------------- customer_service_audit_with_enhance.py transcribe_audio
InVariant(label) == op = "variant_transcribe_audio" /\ pc = label

\* transcribe_audio(audio_file) of the script is called
CallVariantTranscribe ==
    /\ StartCall("variant_transcribe_audio")
    /\ \E inp \in Inputs : input' = inp
    /\ pc' = "V51"
    /\ UNCHANGED <<text, reply, outcome>>

\* lines 28-43: the capability calls of the script's preprocess_audio after
\* the conversion, in their order
VariantStages == <<"load", "denoise", "save", "enhance", "save">>

\* line 19: str.endswith(".wav"), which tells .WAV from .wav
VariantConverts(inp) == inp.ext # ".wav"

\* the files written when the first n of the stages are done: temp_input.wav
\* by ffmpeg (lines 20-23), denoised.wav (line 32), the enhanced file
\* (line 43)
VariantWritten(inp, n) ==
    (IF VariantConverts(inp)
     THEN {FilePath(ScriptDir, <<"temp_input.wav">>)} ELSE {})
    \cup (IF n >= 3 THEN {FilePath(ScriptDir, <<"denoised.wav">>)} ELSE {})
    \cup (IF n >= 5 THEN {FilePath(ScriptDir, <<"enhanced_audio.wav">>)}
          ELSE {})

\* the calls made when stage n + 1 is the last one tried
VariantCalls(inp, n) ==
    [c \in Capabilities |->
        IF c = "ffmpeg" THEN (IF VariantConverts(inp) THEN 1 ELSE 0)
        ELSE Cardinality({i \in 1..n : i <= Len(VariantStages)
                                        /\ VariantStages[i] = c})]

\* line 51: preprocess_audio of the script (lines 14-44).  No try in the
\* script: what is raised leaves transcribe_audio.  The input is missing;
\* or ffmpeg fails; or the first n stages succeed and the next one raises
\* (n = 4: also the silence check of lines 39-40); or all five succeed.
VariantPreprocess ==
    /\ InVariant("V51")
    /\ \/ /\ InputPath(input) \notin fs
          /\ outcome' = Raised("FileNotFoundError")
          /\ pc' = "done"
          /\ UNCHANGED <<fs, created, fsops, calls, enhanced_file_path>>
       \/ /\ InputPath(input) \in fs
          /\ VariantConverts(input)
          /\ \E tp \in {"CalledProcessError", "FileNotFoundError"} :
                outcome' = Raised(tp)
          /\ calls' = VariantCalls(input, 0)
          /\ pc' = "done"
          /\ UNCHANGED <<fs, created, fsops, enhanced_file_path>>
       \/ /\ InputPath(input) \in fs
          /\ \E n \in 0..(Len(VariantStages) - 1), tp \in CapErrors :
                /\ fs' = fs \cup VariantWritten(input, n)
                /\ created' = created \cup VariantWritten(input, n)
                /\ fsops' = fsops
                             \cup (IF VariantConverts(input) THEN {"ffmpeg"}
                                   ELSE {})
                             \cup (IF n >= 3 THEN {"save"} ELSE {})
                /\ calls' = VariantCalls(input, n + 1)
                /\ outcome' = Raised(tp)
          /\ pc' = "done"
          /\ UNCHANGED enhanced_file_path
       \/ /\ InputPath(input) \in fs
          /\ fs' = fs \cup VariantWritten(input, Len(VariantStages))
          /\ created' = created \cup VariantWritten(input, Len(VariantStages))
          /\ fsops' = fsops
                       \cup (IF VariantConverts(input) THEN {"ffmpeg"} ELSE {})
                       \cup {"save"}
          /\ calls' = VariantCalls(input, Len(VariantStages))
          /\ enhanced_file_path' = FilePath(ScriptDir, <<"enhanced_audio.wav">>)
          /\ pc' = "V52"
          /\ UNCHANGED outcome
    /\ UNCHANGED <<http_vars, caps, op, input, text, reply, temp_dir,
                   output_enhanced_path, temp_wav_file, silent, segments,
                   transcription, audit_transcription, analysis, exc, ret>>

\* lines 52-55: whisper_model.transcribe returns the lazy segment sequence,
\* or raises
VariantWhisperTranscribe ==
    /\ InVariant("V52")
    /\ Count("transcribe")
    /\ \/ \E segs \in SegmentLists :
            /\ segments' = LazySegments(segs)
            /\ pc' = "V58"
            /\ UNCHANGED outcome
       \/ \E tp \in CapErrors :
            /\ outcome' = Raised(tp)
            /\ pc' = "done"
            /\ UNCHANGED segments
    /\ UNCHANGED <<http_vars, caps, fs, op, input, text, reply, temp_dir,
                   output_enhanced_path, temp_wav_file, enhanced_file_path,
                   silent, transcription, audit_transcription, analysis,
                   exc, ret, fsops, created>>

\* lines 58-59: the for loop prints every segment; decoding is done while
\* the sequence is consumed, so it can fail here
VariantPrintSegments ==
    /\ InVariant("V58")
    /\ segments' = Iterated(segments)
    /\ \/ pc' = "V61" /\ UNCHANGED outcome
       \/ outcome' = Raised("RuntimeError") /\ pc' = "done"
    /\ UNCHANGED <<http_vars, caps, fs, op, input, text, reply, temp_dir,
                   output_enhanced_path, temp_wav_file, enhanced_file_path,
                   silent, transcription, audit_transcription, analysis,
                   exc, ret, calls, fsops, created>>

\* lines 61-62: the join over the same sequence, and the return of the text
VariantJoinSegments ==
    /\ InVariant("V61")
    /\ segments' = Iterated(segments)
    /\ transcription' = Join(Remaining(segments))
    /\ outcome' = Returned(NonDict("str"))
    /\ pc' = "done"
    /\ UNCHANGED <<http_vars, caps, fs, op, input, text, reply, temp_dir,
                   output_enhanced_path, temp_wav_file, enhanced_file_path,
                   silent, audit_transcription, analysis, exc, ret, calls,
                   fsops, created>>

Next ==
    \/ CallAudit
    \/ CallAnalyzeText
    \/ CallVariantAnalyzeText
    \/ EnterTempDir
    \/ CheckGuard
    \/ TranscribeGuards
    \/ PreprocessGuards
    \/ PrepareNames
    \/ ConvertIfNeeded
    \/ LoadAudio
    \/ Denoise
    \/ Enhance
    \/ CheckSilence
    \/ SaveEnhanced
    \/ PreprocessFinally
    \/ WhisperTranscribe
    \/ JoinSegments
    \/ TranscribeFinally
    \/ CheckEmpty
    \/ Analyze
    \/ MergeAnalysis
    \/ Except
    \/ ExitTempDir
    \/ CallVariantTranscribe
    \/ VariantPreprocess
    \/ VariantWhisperTranscribe
    \/ VariantPrintSegments
    \/ VariantJoinSegments
    \/ Finish

Spec == Init /\ [][Next]_vars

\* =================================================================== main.py
TEMP_UPLOADS_DIR == "temp_uploads"

\* line 150
SUPPORTED_AUDIO_EXTENSIONS ==
    {".wav", ".mp3", ".m4a", ".flac", ".ogg", ".aac"}

\* file names a client can send to /upload/audio/: two proper ones, none,
\* and one with path pieces
AudioFilenames ==
    {<<"call", ".wav">>, <<"call", ".mp3">>, <<>>,
     <<"..", "/", "call", ".wav">>}

\* file names a client can send to /upload/zip/
ZipFilenames == {<<"calls", ".zip">>, <<"calls", ".bin">>, <<>>}

\* names of the files an archive can hold
ZipMemberNames ==
    {<<"good", ".mp3">>, <<"bad", ".MP3">>, <<"readme", ".txt">>}

\* the files of an archive in the order os.walk lists them, no name twice
MemberLists ==
    {m \in SeqsUpTo(ZipMemberNames, MaxFiles) :
        \A i, j \in 1..Len(m) : m[i] = m[j] => i = j}

\* the uploaded bytes, by what zipfile does with them:
\*   "zip"     a ZIP archive that extracts
\*   "notzip"  not an archive: ZipFile(...) raises BadZipFile
\*   "badcrc"  an archive with a damaged member: extractall raises
\*             BadZipFile, some of the members written
\*   "broken"  an archive whose extraction raises another exception (an
\*             encrypted member: RuntimeError; a damaged deflate stream:
\*             zlib.error), some of the members written
Streams ==
    {[kind |-> "zip", members |-> m] : m \in MemberLists}
    \cup {[kind |-> "notzip", members |-> <<>>]}
    \cup {[kind |-> k, members |-> m] :
            k \in {"badcrc", "broken"},
            m \in {n \in MemberLists : Len(n) = 1}}

\* names uuid4().hex gives the extraction directory
ExtractionDirs == {"zip_extraction_0a1b2c3d", "zip_extraction_4e5f6a7b"}

\* ------------------------------------------------- what the directory holds
\* temp_uploads is a set of entries [path, by]: by is the worker whose
\* handler wrote the path last
Exists(files, p) == \E e \in files : e.path = p

\* open(p, "wb") and the copy, or makedirs, or an extracted member
Written(files, p, w) ==
    {e \in files : e.path # p} \cup {[path |-> p, by |-> w]}

\* an os.remove that leaves the file where it is
NotRemoved(files, p) == files

\* os.remove(p)
Removed(files, p) == {e \in files : e.path # p}

\* shutil.rmtree of directory d
RemovedTree(files, d) == {e \in files : e.path.dir # d}

RECURSIVE Extracted(_, _, _, _)
\* extractall: the first n members of the archive written under d
Extracted(files, d, members, w) ==
    IF members = <<>> THEN files
    ELSE Extracted(Written(files, FilePath(d, Head(members)), w), d,
                   Tail(members), w)

\* ----------------------------------------------------- AudioAuditResponse
\* lines 30-38: the str fields and the List[str] field
StrFields == {"audio_file", "transcription", "sentiment", "summary",
              "error", "status"}

\* AudioAuditResponse(**d) is built: audio_file is a str, every other str
\* field is missing or a str, compliance_issues is missing or a list
Validates(d) ==
    /\ d["audio_file"].t = "str"
    /\ \A k \in StrFields : d[k].t \in {"absent", "str"}
    /\ d["compliance_issues"].t \in {"absent", "list"}

\* pydantic's ValidationError is a ValueError, as json's JSONDecodeError
ValueErrors ==
    {"ValueError", "ValidationError", "JSONDecodeError", "UnicodeDecodeError"}

\* ------------------------------------------------------------ the responses
HTTPException(code, detail) ==
    [NoResponse EXCEPT !.code = code, !.detail = detail]

\* a handler that returns its model is answered 200 with the model as body
AudioResponse(d) == [NoResponse EXCEPT !.code = 200, !.body = d]

ZipUploadResponse(message, processed_files, errors) ==
    [NoResponse EXCEPT !.code = 200, !.message = message,
                       !.processed_files = processed_files,
                       !.errors = errors]

\* lines 100-109: the except clauses of upload_audio, in their order
ExceptionResponse(tp, filename) ==
    IF tp = "FileNotFoundError"
    THEN HTTPException(404, <<"File not found during processing: ">>
                            \o filename)
    ELSE IF tp \in ValueErrors
    THEN HTTPException(400, <<"Invalid data or processing error: ", tp>>)
    ELSE HTTPException(500, <<"An unexpected error occurred: ", tp>>)

\* lines 88-98: the record becomes the response model, or building the
\* model raises ValidationError inside the try
AuditResponse(d, filename) ==
    IF Validates(d) THEN AudioResponse(d)
    ELSE ExceptionResponse("ValidationError", filename)

\* line 171
NotZipMsg(filename) ==
    <<"Uploaded file '">> \o filename
        \o <<"' is not a valid ZIP file or is corrupted.">>

\* a BadZipFile clause that answers with a client error
BadZipRejected(filename) ==
    HTTPException(400, NotZipMsg(filename))

\* lines 167-173: except zipfile.BadZipFile
BadZipResponse(filename) ==
    ZipUploadResponse(<<"Error processing ZIP file.">>, <<>>,
                      <<NotZipMsg(filename)>>)

\* lines 214-223: except Exception
UnexpectedResponse(tp, results, general_errors) ==
    ZipUploadResponse(<<"Unexpected server error during ZIP processing.">>,
        results,
        Append(general_errors,
               <<"An unexpected server error occurred: ", tp>>))

NoAudioMsg == <<"No supported audio files found in the ZIP archive.">>

\* a handler that adds no message when it found nothing to audit
ErrorsUnchanged(results, general_errors) == general_errors

\* lines 203-204
ZipErrors(results, general_errors) ==
    IF results = <<>> /\ general_errors = <<>>
    THEN <<NoAudioMsg>>
    ELSE general_errors

\* lines 206-210
ProcessedResponse(results, general_errors) ==
    ZipUploadResponse(IF general_errors = <<>>
                      THEN <<"ZIP file processed.">>
                      ELSE <<"ZIP file processed with errors.">>,
                      results, general_errors)

\* lines 195-199
FailedEntry(item_name, tp) ==
    DictSet(DictSet(DictSet(EmptyDict,
        "audio_file", PyStr(item_name)),
        "error", PyStr(<<"Failed to process audio file: ", tp>>)),
        "status", PyStr(<<"FAILED">>))

\* lines 184-199: the entry of one audited file
ZipEntry(item_name, o) ==
    IF o.kind = "raised" THEN FailedEntry(item_name, o.exc)
    ELSE IF Validates(o.val.d) THEN o.val.d
    ELSE FailedEntry(item_name, "ValidationError")

\* lines 180-182
Supported(item_name) ==
    Lower(item_name[Len(item_name)]) \in SUPPORTED_AUDIO_EXTENSIONS

\* ------------------------------------- perform_full_audio_audit, as called
\* replies of the text-generation service behind the audits of main.py: a
\* well-formed object, one with compliance_issues a string, one that
\* carries an error key, and text that is no JSON
HttpReplies ==
    {[kind |-> "text", isdict |-> TRUE, text |-> t] :
        t \in {FullObjectText, <<"{", "S", "Cs", "}">>, <<"{", "E", "}">>,
               <<"x">>}}

\* the audit input of a file name
InputOf(name) == [base |-> name[1], ext |-> name[Len(name)]]

\* what perform_full_audio_audit(path) can give its caller in one call: the
\* missing-file record when the path is not there; else the empty-transcript
\* record, a FAILED record, or the analysis of a transcript merged into the
\* record; or the error of a failed TemporaryDirectory cleanup; and for a
\* file that is not .wav the conversion-failed record or the error of
\* decoding the transcoder's output
AuditOutcomes(name, exists) ==
    IF ~exists
    THEN {Returned(HandlerRecord(InputOf(name),
                                 Exc("FileNotFoundError", <<>>)))}
    ELSE {Returned(EmptyTranscriptRecord(InputOf(name))),
          Returned(HandlerRecord(InputOf(name), SilenceError)),
          Raised("OSError")}
         \cup (IF Lower(InputOf(name).ext) = ".wav" THEN {}
               ELSE {IF ErrMsgRaises(CalledProcessError(err))
                     THEN Raised(UnicodeDecodeError.type)
                     ELSE Returned(HandlerRecord(InputOf(name),
                                                 CalledProcessError(err))) :
                     err \in Stderrs})
         \cup {Returned(MergedRecord(InputOf(name),
                                     AnalyzeText(<<"hello">>, r).val,
                                     <<"hello">>)) : r \in HttpReplies}

\* ------------------------------------------------------------ upload_audio
At(w, label) == handler[w].pc = label

Update(w, h) == handler' = [handler EXCEPT ![w] = h]

\* lines 70-79: the request arrives; the file name is checked and the path
\* of the saved upload is TEMP_UPLOADS_DIR/filename
UploadAudioReceive(W) ==
    \E w \in W, f \in AudioFilenames :
      /\ At(w, "idle")
      /\ IF f = <<>>
         THEN Update(w, [handler[w] EXCEPT
                  !.endpoint = "upload_audio", !.filename = f,
                  !.response = HTTPException(400, <<"No filename provided.">>),
                  !.pc = "done"])
         ELSE IF \E i \in 1..Len(f) : f[i] \in {"..", "/"}
         THEN Update(w, [handler[w] EXCEPT
                  !.endpoint = "upload_audio", !.filename = f,
                  !.response =
                      HTTPException(400, <<"Invalid filename characters.">>),
                  !.pc = "done"])
         ELSE Update(w, [handler[w] EXCEPT
                  !.endpoint = "upload_audio", !.filename = f,
                  !.temp_file_path = FilePath(TEMP_UPLOADS_DIR, f),
                  !.pc = "save"])
      /\ UNCHANGED <<audit_vars, temp_uploads>>

\* lines 83-84: the upload is written, or open or the copy fails (the file
\* created or not) and the except Exception clause is taken
UploadAudioSave(W) ==
    \E w \in W :
      /\ At(w, "save")
      /\ \/ /\ temp_uploads' =
                  Written(temp_uploads, handler[w].temp_file_path, w)
            /\ Update(w, [handler[w] EXCEPT !.pc = "audit"])
         \/ \E wrote \in BOOLEAN :
              /\ temp_uploads' =
                    IF wrote
                    THEN Written(temp_uploads, handler[w].temp_file_path, w)
                    ELSE temp_uploads
              /\ Update(w, [handler[w] EXCEPT
                      !.oserror = TRUE,
                      !.pending = ExceptionResponse("OSError",
                                                    handler[w].filename),
                      !.pc = "finally"])
      /\ UNCHANGED audit_vars

\* lines 88-109: the audit is called; its record becomes the response, or
\* its exception, or the one of building the response, an HTTPException
UploadAudioAudit(W) ==
    \E w \in W :
      /\ At(w, "audit")
      /\ \E o \in AuditOutcomes(handler[w].filename,
                               Exists(temp_uploads,
                                      handler[w].temp_file_path)) :
           Update(w, [handler[w] EXCEPT
               !.audits = Append(@, o),
               !.pending =
                   IF o.kind = "raised"
                   THEN ExceptionResponse(o.exc, handler[w].filename)
                   ELSE AuditResponse(o.val.d, handler[w].filename),
               !.pc = "finally"])
      /\ UNCHANGED <<audit_vars, temp_uploads>>

\* lines 110-123: the saved upload is removed if it is there, an OSError of
\* the removal only logged; then the response goes out
UploadAudioFinally(W) ==
    \E w \in W :
      /\ At(w, "finally")
      /\ LET p == handler[w].temp_file_path
         IN  IF Exists(temp_uploads, p)
             THEN \/ /\ temp_uploads' = Removed(temp_uploads, p)
                     /\ Update(w, [handler[w] EXCEPT
                            !.response = handler[w].pending,
                            !.pc = "done"])
                  \/ /\ UNCHANGED temp_uploads
                     /\ Update(w, [handler[w] EXCEPT
                            !.rmfailed = @ \cup {p},
                            !.response = handler[w].pending,
                            !.pc = "done"])
             ELSE /\ UNCHANGED temp_uploads
                  /\ Update(w, [handler[w] EXCEPT
                         !.response = handler[w].pending,
                         !.pc = "done"])
      /\ UNCHANGED audit_vars

\* -------------------------------------------------------------- upload_zip
\* lines 132-148: the request arrives; the file name is checked; the names
\* of the saved archive and of the extraction directory are made with
\* uuid4, which gives names not in use
UploadZipReceive(W) ==
    \E w \in W, f \in ZipFilenames, b \in Streams :
      /\ At(w, "idle")
      /\ IF f = <<>>
         THEN Update(w, [handler[w] EXCEPT
                  !.endpoint = "upload_zip", !.filename = f, !.stream = b,
                  !.response = HTTPException(400,
                      <<"No filename provided for the ZIP file.">>),
                  !.pc = "done"])
         ELSE IF f[Len(f)] # ".zip"
         THEN Update(w, [handler[w] EXCEPT
                  !.endpoint = "upload_zip", !.filename = f, !.stream = b,
                  !.response = HTTPException(400,
                      <<"Invalid file type. Only .zip files are accepted.">>),
                  !.pc = "done"])
         ELSE \E u \in Uuids, d \in ExtractionDirs :
                /\ ~Exists(temp_uploads,
                           FilePath(TEMP_UPLOADS_DIR, <<u, "_">> \o f))
                /\ ~Exists(temp_uploads, DirPath(d))
                /\ \A v \in Workers \ {w} :
                     /\ handler[v].temp_zip_path
                          # FilePath(TEMP_UPLOADS_DIR, <<u, "_">> \o f)
                     /\ handler[v].extraction_path # DirPath(d)
                /\ Update(w, [handler[w] EXCEPT
                       !.endpoint = "upload_zip", !.filename = f,
                       !.stream = b,
                       !.temp_zip_path =
                           FilePath(TEMP_UPLOADS_DIR, <<u, "_">> \o f),
                       !.extraction_path = DirPath(d),
                       !.pc = "zsave"])
      /\ UNCHANGED <<audit_vars, temp_uploads>>

\* lines 154-155: the archive is written, or the write fails
UploadZipSave(W) ==
    \E w \in W :
      /\ At(w, "zsave")
      /\ \/ /\ temp_uploads' =
                  Written(temp_uploads, handler[w].temp_zip_path, w)
            /\ Update(w, [handler[w] EXCEPT !.pc = "zextract"])
         \/ \E wrote \in BOOLEAN :
              /\ temp_uploads' =
                    IF wrote
                    THEN Written(temp_uploads, handler[w].temp_zip_path, w)
                    ELSE temp_uploads
              /\ Update(w, [handler[w] EXCEPT
                      !.oserror = TRUE,
                      !.pending = UnexpectedResponse("OSError",
                                      handler[w].results,
                                      handler[w].general_errors),
                      !.pc = "zfinally"])
      /\ UNCHANGED audit_vars

\* lines 160-173: the extraction directory is made and the archive
\* extracted into it
UploadZipExtract(W) ==
    \E w \in W :
      /\ At(w, "zextract")
      /\ LET h == handler[w]
             d == h.extraction_path.dir
             made == Written(temp_uploads, h.extraction_path, w)
         IN  \/ \* makedirs fails
                /\ UNCHANGED temp_uploads
                /\ Update(w, [h EXCEPT
                       !.oserror = TRUE,
                       !.pending = UnexpectedResponse("OSError", h.results,
                                                      h.general_errors),
                       !.pc = "zfinally"])
             \/ /\ h.stream.kind = "zip"
                /\ temp_uploads' = Extracted(made, d, h.stream.members, w)
                /\ Update(w, [h EXCEPT !.pc = "zwalk"])
             \/ /\ h.stream.kind \in {"notzip", "badcrc"}
                /\ \E n \in 0..Len(h.stream.members) :
                     temp_uploads' =
                         Extracted(made, d, SubSeq(h.stream.members, 1, n), w)
                /\ Update(w, [h EXCEPT
                       !.general_errors = <<NotZipMsg(h.filename)>>,
                       !.pending = BadZipResponse(h.filename),
                       !.pc = "zfinally"])
             \/ /\ h.stream.kind = "broken"
                /\ \E n \in 0..Len(h.stream.members) :
                     temp_uploads' =
                         Extracted(made, d, SubSeq(h.stream.members, 1, n), w)
                /\ Update(w, [h EXCEPT
                       !.pending = UnexpectedResponse("RuntimeError",
                                       h.results, h.general_errors),
                       !.pc = "zfinally"])
      /\ UNCHANGED audit_vars

\* lines 177-201: the next file of the walk; a supported one is audited and
\* its entry appended, any other is skipped
UploadZipWalk(W) ==
    \E w \in W :
      /\ At(w, "zwalk")
      /\ handler[w].walked < Len(handler[w].stream.members)
      /\ LET h == handler[w]
             item_name == h.stream.members[h.walked + 1]
             item_path == FilePath(h.extraction_path.dir, item_name)
         IN  IF Supported(item_name)
             THEN \E o \in AuditOutcomes(item_name,
                                         Exists(temp_uploads, item_path)) :
                    Update(w, [h EXCEPT
                        !.audits = Append(@, o),
                        !.results = Append(@, ZipEntry(item_name, o)),
                        !.walked = @ + 1])
             ELSE Update(w, [h EXCEPT !.walked = @ + 1])
      /\ UNCHANGED <<audit_vars, temp_uploads>>

\* lines 203-210: the walk is over; the response is built
UploadZipRespond(W) ==
    \E w \in W :
      /\ At(w, "zwalk")
      /\ handler[w].walked = Len(handler[w].stream.members)
      /\ LET h == handler[w]
             errs == ZipErrors(h.results, h.general_errors)
         IN  Update(w, [h EXCEPT
                 !.general_errors = errs,
                 !.pending = ProcessedResponse(h.results, errs),
                 !.pc = "zfinally"])
      /\ UNCHANGED <<audit_vars, temp_uploads>>

\* lines 224-244: the saved archive and the extraction directory are
\* removed if they are there, an OSError of a removal only logged; then the
\* response goes out
UploadZipFinally(W) ==
    \E w \in W :
      /\ At(w, "zfinally")
      /\ LET h == handler[w]
             z == h.temp_zip_path
             x == h.extraction_path
         IN  \E zipGoes \in BOOLEAN, dirGoes \in BOOLEAN :
               LET afterZip == IF zipGoes THEN Removed(temp_uploads, z)
                               ELSE temp_uploads
                   failed ==
                       (IF ~zipGoes /\ Exists(temp_uploads, z)
                        THEN {z} ELSE {})
                       \cup (IF ~dirGoes /\ Exists(temp_uploads, x)
                             THEN {x} ELSE {})
               IN  /\ temp_uploads' = IF dirGoes
                                      THEN RemovedTree(afterZip, x.dir)
                                      ELSE afterZip
                   /\ Update(w, [h EXCEPT
                          !.rmfailed = @ \cup failed,
                          !.response = h.pending,
                          !.pc = "done"])
      /\ UNCHANGED audit_vars

\* one worker serves requests, one at a time
HttpWorkers == {"w1"}

HttpNext ==
    \/ UploadAudioReceive(HttpWorkers)
    \/ UploadAudioSave(HttpWorkers)
    \/ UploadAudioAudit(HttpWorkers)
    \/ UploadAudioFinally(HttpWorkers)
    \/ UploadZipReceive(HttpWorkers)
    \/ UploadZipSave(HttpWorkers)
    \/ UploadZipExtract(HttpWorkers)
    \/ UploadZipWalk(HttpWorkers)
    \/ UploadZipRespond(HttpWorkers)
    \/ UploadZipFinally(HttpWorkers)

\* main.py is served by a module whose capabilities all loaded
InitServing == Init /\ caps.WHISPER_MODEL_INSTANCE

SpecHttp == InitServing /\ [][HttpNext]_vars

\* two workers serve /upload/audio/ at the same time
ConcurrentNext ==
    \/ UploadAudioReceive(Workers)
    \/ UploadAudioSave(Workers)
    \/ UploadAudioAudit(Workers)
    \/ UploadAudioFinally(Workers)

SpecConcurrent == InitServing /\ [][ConcurrentNext]_vars

\* ------------------------------------------------------------- the claims
AuditReturned == op = "audit" /\ outcome.kind = "returned"

\* the record the audit returned
Rec == outcome.val.d

Failed == PyStr(<<"FAILED">>)

IsFailedRecord(d) == d["status"] = Failed /\ d["error"].t = "str"

\* the first piece of the error string names the failure category
ErrorCategory(d) == d["error"].s[1]

\* C1: whenever the guard reports unavailable, an audit makes no change to
\* the file system at any point of the call, and the record it returns is
\* FAILED in the capabilities-unavailable (import error) category.
C1_UnavailableTouchesNoFile ==
    (op = "audit" /\ GuardUnavailable) =>
        /\ fsops = {}
        /\ created = {}
        /\ pc = "done" =>
             /\ outcome.kind = "returned"
             /\ IsFailedRecord(Rec)
             /\ ErrorCategory(Rec) = "Import error during processing: "

\* C2: when the audit hands a record to its caller, on every exit path, the
\* temporary directory and every path created in it during the call are
\* gone: the removal is done before the record is handed over.
C2_TempDirGoneWhenReturned ==
    AuditReturned =>
        /\ temp_dir # ""
        /\ DirPath(temp_dir) \notin fs
        /\ Under(fs, temp_dir) = {}
        /\ created \cap fs = {}

\* C2 witness: a record was returned in a call where saving the enhanced
\* file failed after writing part of it, so that no finally clause removed
\* it, and the converted file had been written too.
C2_Witness ==
    /\ AuditReturned
    /\ output_enhanced_path \in created
    /\ temp_wav_file \in created
    /\ enhanced_file_path = NoPath
    /\ IsFailedRecord(Rec)

\* whether transcribe_audio gave the audit a blank transcript
BlankTranscript ==
    /\ op = "audit"
    /\ audit_transcription.t = "str"
    /\ \A i \in 1..Len(audit_transcription.s) :
           audit_transcription.s[i] \in Whitespace

\* C3: an audit whose transcript is empty or whitespace-only never calls
\* analyze_text and returns a record that is not failed, with an empty
\* transcription, the unknown sentiment and the single compliance issue
\* "Empty transcription".
C3_BlankTranscriptSkipsLLM ==
    BlankTranscript =>
        /\ calls["analyze"] = 0
        /\ pc \notin {"L210", "L211", "L214"}
        /\ outcome.kind = "returned" =>
             /\ ~Has(Rec, "status")
             /\ ~Has(Rec, "error")
             /\ Rec["transcription"] = PyStr(<<>>)
             /\ Rec["sentiment"] = PyStr(SentimentUnknown)
             /\ Rec["compliance_issues"] = PyList(<< <<"Empty transcription">> >>)
             /\ Rec["audio_file"] = PyStr(Basename(input))

\* C3 witness: a record was returned for a transcript of white space only
C3_Witness ==
    /\ BlankTranscript
    /\ audit_transcription.s # <<>>
    /\ outcome.kind = "returned"

\* C4: no exception reaches the caller of an audit; every failure comes
\* back as a FAILED record with an error string.
C4_NoExceptionReachesCaller ==
    op = "audit" => outcome.kind # "raised"

\* C5: with capabilities available, the returned record is in the
\* input-not-found category exactly when the source audio file does not
\* exist.
C5_NotFoundIffInputMissing ==
    (AuditReturned /\ ~GuardUnavailable) =>
        ((Rec["error"] = PyStr(NotFoundError)) <=> (InputPath(input) \notin fs))

AnalyzeTextDone ==
    op \in {"analyze_text", "variant_analyze_text"} /\ pc = "done"

\* C6: analyze_text, in either source file, never raises: whatever the
\* text-generation call does, a value is returned, and it is a fallback
\* with the unknown sentiment when the call failed or its text is no JSON.
C6_AnalyzeTextNeverRaises ==
    AnalyzeTextDone =>
        /\ outcome.kind = "returned"
        /\ (reply.kind # "text" \/ ~JsonLoads(reply.text).ok) =>
               outcome.val.d["sentiment"] = PyStr(SentimentUnknown)

\* the LLM gave text that is not valid JSON
ParseFailure == reply.kind = "text" /\ ~JsonLoads(reply.text).ok

\* the part of a fallback summary between its fixed head and the "..."
Embedded(summary) == SubSeq(summary.s, 2, Len(summary.s) - 1)

\* C7: for reply text that is not valid JSON, audit_processing.analyze_text
\* returns the unknown sentiment, a non-empty compliance_issues list that
\* describes a parse error, and a summary that embeds a prefix of the raw
\* reply of at most 100 characters, so never a reply longer than that in
\* full.
C7_ParseErrorBoundedPrefix ==
    (op = "analyze_text" /\ pc = "done" /\ ParseFailure) =>
        /\ outcome.kind = "returned"
        /\ outcome.val.t = "dict"
        /\ Rec["sentiment"] = PyStr(SentimentUnknown)
        /\ Rec["compliance_issues"].t = "list"
        /\ Len(Rec["compliance_issues"].l) >= 1
        /\ Rec["compliance_issues"].l[1][1] = "JSON parsing error: "
        /\ Len(Embedded(Rec["summary"])) <= RawPrefixLen
        /\ IsPrefixOf(Embedded(Rec["summary"]), RawOfReply(reply))
        /\ Len(RawOfReply(reply)) > RawPrefixLen =>
               Embedded(Rec["summary"]) # RawOfReply(reply)

\* C7 witness: analyze_text returned for a reply of invalid text that is
\* longer than the slice
C7_Witness ==
    /\ op = "analyze_text"
    /\ pc = "done"
    /\ ParseFailure
    /\ reply.isdict
    /\ Len(reply.text) > RawPrefixLen
    /\ outcome.kind = "returned"

\* C8 as stated: on a JSON parse failure the analysis adapter returns a
\* fallback with an empty compliance-issue list, the unknown sentiment and
\* a summary that embeds a truncated prefix of the raw reply.
C8_ParseFailureEmptyIssues ==
    (AnalyzeTextDone /\ ParseFailure) =>
        /\ outcome.kind = "returned"
        /\ Rec["compliance_issues"] = PyList(<<>>)
        /\ Rec["sentiment"] = PyStr(SentimentUnknown)
        /\ IsPrefixOf(Embedded(Rec["summary"]), RawOfReply(reply))

\* C8 amended: on a JSON parse failure audit_processing.analyze_text
\* returns a fallback whose compliance-issue list holds exactly one entry,
\* the description of the JSON parsing error, with the unknown sentiment
\* and a summary that embeds the first 100 characters of the raw reply;
\* the script variant returns an empty compliance-issue list, the unknown
\* sentiment and a summary that embeds the first 50 characters of the
\* analysed text.
C8_ParseFailureFallback ==
    (AnalyzeTextDone /\ ParseFailure) =>
        /\ outcome.kind = "returned"
        /\ outcome.val.t = "dict"
        /\ Rec["sentiment"] = PyStr(SentimentUnknown)
        /\ \A k \in Keys \ {"sentiment", "compliance_issues", "summary"} :
               ~Has(Rec, k)
        /\ op = "analyze_text" =>
             /\ Rec["compliance_issues"].t = "list"
             /\ Len(Rec["compliance_issues"].l) = 1
             /\ Rec["compliance_issues"].l[1][1] = "JSON parsing error: "
             /\ Rec["summary"].s[1] = "Cannot parse LLM output. Raw: "
             /\ Embedded(Rec["summary"]) =
                    Prefix(RawOfReply(reply), RawPrefixLen)
        /\ op = "variant_analyze_text" =>
             /\ Rec["compliance_issues"] = PyList(<<>>)
             /\ Embedded(Rec["summary"]) = Prefix(text, VariantPrefixLen)

\* C8 witness: both functions returned their fallback for a reply that
\* opens with the model's thinking before the JSON
C8_Witness ==
    /\ op = "analyze_text"
    /\ pc = "done"
    /\ reply.text = <<"<think>", "{", "S", "C", "M", "}">>
    /\ outcome.kind = "returned"
    /\ Len(Rec["compliance_issues"].l) = 1

\* C9: whatever the text-generation service replies, analyze_text returns
\* a mapping that has sentiment, a compliance_issues list and summary.
C9_ResultHasThreeKeys ==
    (op = "analyze_text" /\ pc = "done") =>
        /\ outcome.kind = "returned"
        /\ outcome.val.t = "dict"
        /\ Rec["sentiment"].t = "str"
        /\ Rec["compliance_issues"].t = "list"
        /\ Rec["summary"].t = "str"

\* C10: every record an audit returns carries a status: a success status,
\* or FAILED together with an error string.
C10_RecordCarriesStatus ==
    AuditReturned =>
        /\ Rec["status"].t = "str"
        /\ Rec["status"] = Failed => Rec["error"].t = "str"
        /\ Has(Rec, "error") => Rec["status"] = Failed

\* transcribe_audio, called by the audit at line 203, has returned its
\* transcript (L204) or its exception has reached the audit (L214)
TranscribeAudioLeft ==
    /\ op = "audit"
    /\ pc \in {"L204", "L214"}
    /\ output_enhanced_path # NoPath

\* C11: after transcribe_audio returns or raises, neither the temporary
\* transcoded file nor the enhanced file that preprocess_audio made for it
\* exists, on success and on every failure path.
C11_TranscribeLeavesNoFile ==
    TranscribeAudioLeft =>
        /\ temp_wav_file \notin fs
        /\ output_enhanced_path \notin fs

\* the enhanced file is left behind although every os.remove that was
\* tried succeeded: torchaudio.save failed after writing part of it
C11_LeakWithoutRemoveFailure ==
    (TranscribeAudioLeft /\ calls["save"] = 1 /\ exc.msg = <<"save", " failed">>
       /\ temp_wav_file = NoPath)
        => output_enhanced_path \notin fs

\* the stages behind each stage, in the order of lines 83-106 and 203-210
StageBefore ==
    [c \in Capabilities \ {"ffmpeg", "load"} |->
        CASE c = "denoise"    -> "load"
          [] c = "enhance"    -> "denoise"
          [] c = "save"       -> "enhance"
          [] c = "transcribe" -> "save"
          [] c = "analyze"    -> "transcribe"]

\* no stage has failed so far in this audit: no exception is propagating
\* and no except clause has chosen the record
NoFailureYet == exc = NoExc /\ ret = NoValue

\* C18: within one audit the stages run in the order transcode, (load,)
\* denoise, enhance, (save,) transcribe, analyze; no capability is invoked
\* more than once; a stage is invoked only after the one before it was, and
\* only while no stage has failed: after the first failure nothing is called.
C18_StagesInOrderOnce ==
    /\ [](op = "audit" =>
            /\ \A c \in Capabilities : calls[c] <= 1
            /\ \A c \in DOMAIN StageBefore :
                 calls[c] = 1 => calls[StageBefore[c]] = 1
            /\ calls["ffmpeg"] = 1 => Lower(input.ext) # ".wav"
            /\ (calls["load"] = 1 /\ Lower(input.ext) # ".wav")
                 => calls["ffmpeg"] = 1)
    /\ [][(op = "audit" /\ op' = "audit" /\ calls' # calls) =>
            /\ NoFailureYet
            /\ \E c \in Capabilities :
                 calls' = [calls EXCEPT ![c] = calls[c] + 1]]_vars

\* an audit of an .mp3 that ran all the stages and returned its record
C18_Witness ==
    /\ AuditReturned
    /\ pc = "done"
    /\ \A c \in Capabilities : calls[c] = 1

\* the handles that the imports of lines 22-25 bind
ImportedHandles ==
    {"torch", "torchaudio", "WhisperModel", "denoise_func", "enhance_func"}

\* C19: after module initialisation the capability state is all-or-nothing:
\* the flag is true and every handle, WHISPER_MODEL_INSTANCE included, is
\* set, or the flag is false and every handle is None.
C19_AllOrNothing ==
    \/ /\ caps.flag
       /\ \A h \in ImportedHandles : caps[h]
       /\ caps.WHISPER_MODEL_INSTANCE
    \/ /\ ~caps.flag
       /\ \A h \in ImportedHandles : ~caps[h]
       /\ ~caps.WHISPER_MODEL_INSTANCE

\* C19 as the code has it: the imports are all-or-nothing (the flag is true
\* and every imported handle is set, or it is false and every handle,
\* WHISPER_MODEL_INSTANCE included, is None); WHISPER_MODEL_INSTANCE is set
\* only when the imports succeeded, and may be None although they did.
C19_ImportsAllOrNothing ==
    /\ caps.flag => \A h \in ImportedHandles : caps[h]
    /\ ~caps.flag => /\ \A h \in ImportedHandles : ~caps[h]
                     /\ ~caps.WHISPER_MODEL_INSTANCE
    /\ caps.WHISPER_MODEL_INSTANCE => caps.flag

\* the imports succeeded, the model could not be initialised, and an audit
\* was answered by the guard of line 200
C19_Witness ==
    /\ caps.flag
    /\ ~caps.WHISPER_MODEL_INSTANCE
    /\ AuditReturned
    /\ pc = "done"
    /\ IsFailedRecord(Rec)
    /\ ErrorCategory(Rec) = "Import error during processing: "

\* C20: when the enhanced waveform is below the silence threshold,
\* preprocess_audio raises the silence error before the enhanced file is
\* written, neither transcription nor the LLM is called, and the record the
\* audit returns is FAILED in the processing-error category with that
\* message.
C20_SilenceFailsBeforeSave ==
    (op = "audit" /\ silent) =>
        /\ calls["save"] = 0
        /\ output_enhanced_path \notin fs
        /\ calls["transcribe"] = 0
        /\ calls["analyze"] = 0
        /\ pc \in {"L110", "L140", "L214"} => exc = SilenceError
        /\ pc \in {"L102", "L110", "L140", "L214", "exit", "done"}
        /\ pc \in {"exit", "done"} =>
             ret = FailedRecord(input,
                                <<"Processing error: ">> \o SilenceError.msg)
        /\ AuditReturned => outcome.val = ret

\* a silent enhancement, reported
C20_Witness ==
    /\ AuditReturned
    /\ pc = "done"
    /\ silent
    /\ IsFailedRecord(Rec)
    /\ ErrorCategory(Rec) = "Processing error: "

\* ------------------------------------------------- the claims about main.py
\* worker w has answered a request to the endpoint
Answered(w, endpoint) ==
    handler[w].endpoint = endpoint /\ handler[w].pc = "done"

\* the response of worker w, from the return or raise statement that
\* chooses it on: it goes out unchanged after the finally clause
Reply(w) ==
    IF handler[w].pc = "done" THEN handler[w].response
    ELSE handler[w].pending

Decided(w, endpoint) ==
    handler[w].endpoint = endpoint /\ Reply(w).code # 0

\* the supported audio files of the archive, in the order of the walk
AudioMembers(w) == SelectSeq(handler[w].stream.members, Supported)

\* the archive was accepted under a .zip name, stored and extracted
ArchiveExtracted(w) ==
    /\ Decided(w, "upload_zip")
    /\ handler[w].stream.kind = "zip"
    /\ handler[w].filename # <<>>
    /\ handler[w].filename[Len(handler[w].filename)] = ".zip"
    /\ ~handler[w].oserror

\* C12: for a valid ZIP upload with audio files in it, processed_files has
\* exactly one entry per extracted file with a supported extension, in the
\* order of the walk, each with the status and the error of that file's own
\* audit (FAILED with an error when the audit call raised); errors stays
\* empty and the message is "ZIP file processed.".
C12_EntryPerSupportedFile ==
    \A w \in Workers :
      (ArchiveExtracted(w) /\ AudioMembers(w) # <<>>) =>
        LET r == Reply(w)
            audio == AudioMembers(w)
        IN  /\ r.code = 200
            /\ Len(r.processed_files) = Len(audio)
            /\ Len(handler[w].audits) = Len(audio)
            /\ \A i \in 1..Len(audio) :
                 LET entry == r.processed_files[i]
                     o == handler[w].audits[i]
                 IN  /\ entry["audio_file"] = PyStr(audio[i])
                     /\ IF o.kind = "returned"
                        THEN /\ entry["status"] = o.val.d["status"]
                             /\ entry["error"] = o.val.d["error"]
                        ELSE /\ entry["status"] = Failed
                             /\ entry["error"].t = "str"
            /\ r.errors = <<>>
            /\ r.message = <<"ZIP file processed.">>

\* C13: for a valid ZIP archive without a file of a supported audio
\* extension (an empty archive too), upload_zip answers 200 with
\* processed_files empty and errors holding exactly the "No supported audio
\* files found" message, and no audit is called.
C13_NoAudioOneMessage ==
    \A w \in Workers :
      (ArchiveExtracted(w) /\ AudioMembers(w) = <<>>) =>
        /\ Reply(w).code = 200
        /\ Reply(w).processed_files = <<>>
        /\ Reply(w).errors = <<NoAudioMsg>>
        /\ handler[w].audits = <<>>

\* an archive that holds readme.txt only has been answered
C13_Witness ==
    /\ ArchiveExtracted("w1")
    /\ Answered("w1", "upload_zip")
    /\ handler["w1"].stream.members = << <<"readme", ".txt">> >>
    /\ handler["w1"].response.errors = <<NoAudioMsg>>

\* the uploaded bytes are no ZIP archive, or a damaged one
NotAnArchive(w) == handler[w].stream.kind \in {"notzip", "badcrc", "broken"}

\* C14: any non-ZIP or corrupted byte stream sent to the batch endpoint is
\* answered 200 with the "not a valid ZIP file" message among errors and
\* processed_files empty, never with an HTTP error status, and no audit is
\* called for it.
C14_NotZipAnswered200 ==
    \A w \in Workers :
      (Answered(w, "upload_zip") /\ NotAnArchive(w)) =>
        /\ handler[w].response.code = 200
        /\ \E i \in 1..Len(handler[w].response.errors) :
             handler[w].response.errors[i] = NotZipMsg(handler[w].filename)
        /\ handler[w].response.processed_files = <<>>
        /\ handler[w].audits = <<>>

\* C14 as the code has it: such a stream is answered 400 when its file
\* name is missing or does not end in .zip; under a .zip name it is
\* answered 200 with processed_files empty and exactly one error: the "not
\* a valid ZIP file" message when zipfile raises BadZipFile, the unexpected
\* server error message when storing or extracting it fails otherwise.  No
\* audit is called in any of these cases.
C14_NotZipByNameAndError ==
    \A w \in Workers :
      (Answered(w, "upload_zip") /\ NotAnArchive(w)) =>
        LET h == handler[w]
            r == handler[w].response
        IN  /\ h.audits = <<>>
            /\ r.processed_files = <<>>
            /\ IF h.filename = <<>> \/ h.filename[Len(h.filename)] # ".zip"
               THEN r.code = 400
               ELSE /\ r.code = 200
                    /\ IF h.oserror
                       THEN r = UnexpectedResponse("OSError", <<>>, <<>>)
                       ELSE IF h.stream.kind = "broken"
                       THEN r = UnexpectedResponse("RuntimeError", <<>>, <<>>)
                       ELSE /\ r.errors = <<NotZipMsg(h.filename)>>
                            /\ r.message = <<"Error processing ZIP file.">>

\* bytes that are no archive, sent as calls.zip, have been answered
C14_Witness ==
    /\ Answered("w1", "upload_zip")
    /\ handler["w1"].stream.kind = "notzip"
    /\ handler["w1"].filename = <<"calls", ".zip">>
    /\ handler["w1"].response.code = 200
    /\ handler["w1"].response.errors = <<NotZipMsg(<<"calls", ".zip">>)>>

\* the handler of w is between choosing its temporary path and its cleanup
InFlight(w) == handler[w].pc \in {"save", "audit", "finally"}

\* C15: while two requests are in flight their temporary paths differ, and
\* the upload a handler has saved is there, as this handler wrote it, while
\* its audit runs: no other request overwrites or deletes it.
C15_TempPathsUnique ==
    \A v, w \in Workers :
      /\ (v # w /\ InFlight(v) /\ InFlight(w)) =>
            handler[v].temp_file_path # handler[w].temp_file_path
      /\ At(w, "audit") =>
            [path |-> handler[w].temp_file_path, by |-> w] \in temp_uploads

\* C16: whenever the audit returns a record to upload_audio, the endpoint
\* answers 200 with the fields of that record, never an HTTP error.
C16_RecordAnswered200 ==
    \A w \in Workers :
      (/\ Decided(w, "upload_audio")
       /\ Len(handler[w].audits) = 1
       /\ handler[w].audits[1].kind = "returned") =>
        /\ Reply(w).code = 200
        /\ Reply(w).body = handler[w].audits[1].val.d

\* the paths that worker w wrote and that are still there
LeftBy(w) == {e.path : e \in {x \in temp_uploads : x.by = w}}

ConversionFailed == op = "audit" /\ exc.type = "CalledProcessError"

OnlyTranscoderCalled ==
    calls = [c \in Capabilities |-> IF c = "ffmpeg" THEN 1 ELSE 0]

\* the record of the conversion-failed category for the failure e
ConversionRecord(inp, e) ==
    FailedRecord(inp, <<"Audio conversion failed: ">>
                      \o (IF e.stderr # <<>> THEN e.stderr ELSE e.msg))

AllStagesSucceeded ==
    /\ op = "audit"
    /\ audit_transcription # Absent
    /\ analysis.t = "dict"

\* C22: a record returned by an audit in which every stage succeeded has
\* no error key and not the status FAILED, whatever the LLM's JSON holds;
\* its audio_file is the base name of the input and its transcription the
\* whole transcript.
C22_ErrorOnlyIfStageFailed ==
    (AuditReturned /\ AllStagesSucceeded) =>
        /\ ~Has(Rec, "error")
        /\ Rec["status"] # Failed
        /\ Rec["audio_file"] = PyStr(Basename(input))
        /\ Rec["transcription"] = audit_transcription

\* a transcribe_audio has returned its text
AuditTranscribed == op = "audit" /\ audit_transcription # Absent

VariantTranscribed ==
    op = "variant_transcribe_audio" /\ outcome.kind = "returned"

\* C23: when a transcribe_audio returns (the one of audit_processing.py,
\* the one of the script), exactly one iteration was run over the lazy
\* segment sequence and the text returned is the texts of all the segments
\* it yields, joined in order with nothing between them; and as long as
\* the sequence has segments to yield, the enhanced file is still there.
C23_SegmentsJoinedOnce ==
    /\ AuditTranscribed =>
          /\ segments.passes = 1
          /\ audit_transcription.s = Join(segments.items)
    /\ VariantTranscribed =>
          /\ segments.passes = 1
          /\ transcription = Join(segments.items)
    /\ (op \in {"audit", "variant_transcribe_audio"}
        /\ Remaining(segments) # <<>>) => enhanced_file_path \in fs
====
